---- MODULE Spec2Model ----
(***************************************************************************)
(* Model of confluence-dumper: the name allocator, the link rewriter, the  *)
(* recursive page walker and the space loop of html_dumper.py.             *)
(*                                                                         *)
(* Text is a sequence of one-character strings, so that sanitizing,        *)
(* splitting at '.', '%s_%d' formatting and appending an extension are     *)
(* computed character by character as the code computes them.              *)
(* Python's None for an extension is the empty text << >>: the code only   *)
(* ever tests an extension for truthiness, and None and '' are both false. *)
(* Python dicts are functions; they live in a heap and are passed by       *)
(* reference (an index into the heap), 0 being None.                       *)
(***************************************************************************)
EXTENDS Integers, Sequences, FiniteSets, TLC

VARIABLES
    heap,       \* the dict objects allocated so far, by reference
    calls,      \* every provide_unique_file_name call so far, in order
    drv,        \* the allocator driver: the references of its one Naming Scope
    svc,        \* the remote service: title and body of every content node
    main,       \* the local variables of main and its position
    stack,      \* the activations of fetch_page_recursively, the innermost last
    fs,         \* the local file system: folders, files, and the writes in order
    out,        \* the lines printed so far
    net,        \* the requests made so far and how many of them failed
    rets        \* what every finished call of fetch_page_recursively returned

\* ------------------------------------------------------------------ bounds
\* the number of provide_unique_file_name calls the allocator driver makes
MaxCalls == 3
\* the number of requests of one run that end in a transport error
MaxFailures == 2

\* ------------------------------------------------------------------ text
Digits == <<"0", "1", "2", "3", "4", "5", "6", "7", "8", "9">>

RECURSIVE IntToStr(_)
\* '%d' % n for n >= 0
IntToStr(n) ==
    IF n < 10 THEN <<Digits[n + 1]>>
    ELSE IntToStr(n \div 10) \o <<Digits[(n % 10) + 1]>>

Html == <<"h", "t", "m", "l">>

Contains(s, c) == \E i \in 1..Len(s) : s[i] = c

\* the index of the last occurrence of c in s (s contains c)
LastIndexOf(s, c) ==
    CHOOSE i \in 1..Len(s) : s[i] = c /\ \A j \in (i + 1)..Len(s) : s[j] # c

\* s.rsplit(c, 1) for an s that contains c
RSplit(s, c) ==
    LET i == LastIndexOf(s, c)
    IN  <<SubSeq(s, 1, i - 1), SubSeq(s, i + 1, Len(s))>>

\* the characters that are not allowed in a file name
InvalidChars == {"\\", "/", ":", "*", "?", "\"", "<", ">", "|"}

\* utils.sanitize_for_filename: every invalid character becomes '_'
sanitize_for_filename(s) ==
    [i \in 1..Len(s) |-> IF s[i] \in InvalidChars THEN "_" ELSE s[i]]

\* ------------------------------------------------------------------ dicts
EmptyDict == <<>>
Has(d, k) == k \in DOMAIN d
Put(d, k, v) == [x \in (DOMAIN d) \cup {k} |-> IF x = k THEN v ELSE d[x]]

\* ------------------------------------------------------------------ allocator
\* lines 38-48: the sanitized name split into <<base, extension>>
SplitName(file_title, is_folder, explicit_file_extension) ==
    LET file_name == sanitize_for_filename(file_title)
    IN  IF is_folder THEN <<file_name, <<>>>>
        ELSE IF explicit_file_extension # <<>>
             THEN <<file_name, explicit_file_extension>>
        ELSE IF Contains(file_name, ".") THEN RSplit(file_name, ".")
        ELSE <<file_name, <<>>>>

\* CountUp with the first duplicate counted as 1, not 0
CountUp_FromOne(duplicate_file_names, base) ==
    IF Has(duplicate_file_names, base)
    THEN Put(duplicate_file_names, base, duplicate_file_names[base] + 1)
    ELSE Put(duplicate_file_names, base, 1)

\* lines 50-55: the duplicate counter after a new allocation of base
CountUp(duplicate_file_names, base) ==
    IF Has(duplicate_file_names, base)
    THEN Put(duplicate_file_names, base, duplicate_file_names[base] + 1)
    ELSE Put(duplicate_file_names, base, 0)

\* lines 50-55: the base with its suffix, given the updated counter
Suffixed(duplicate_file_names, counted, base) ==
    IF Has(duplicate_file_names, base)
    THEN base \o <<"_">> \o IntToStr(counted[base])
    ELSE base

\* lines 57-58
WithExtension(file_name, file_extension) ==
    IF file_extension # <<>> THEN file_name \o <<".">> \o file_extension
    ELSE file_name

\* lines 38-60: the else branch, a title that has no name yet
NewName(duplicate_file_names, file_matching, file_title, is_folder, explicit_file_extension) ==
    LET split == SplitName(file_title, is_folder, explicit_file_extension)
        counted == CountUp(duplicate_file_names, split[1])
        file_name == WithExtension(
                        Suffixed(duplicate_file_names, counted, split[1]),
                        split[2])
    IN  [file_name |-> file_name,
         duplicate_file_names |-> counted,
         file_matching |-> Put(file_matching, file_title, file_name),
         fresh |-> TRUE]

\* provide_unique_file_name without the lookup of line 35
provide_unique_file_name_NoMemo(duplicate_file_names, file_matching, file_title, is_folder, explicit_file_extension) ==
    NewName(duplicate_file_names, file_matching, file_title, is_folder,
            explicit_file_extension)

\* provide_unique_file_name: the name and the two dicts as the call leaves them
provide_unique_file_name(duplicate_file_names, file_matching, file_title, is_folder, explicit_file_extension) ==
    IF Has(file_matching, file_title)
    THEN [file_name |-> file_matching[file_title],
          duplicate_file_names |-> duplicate_file_names,
          file_matching |-> file_matching,
          fresh |-> FALSE]
    ELSE NewName(duplicate_file_names, file_matching, file_title, is_folder,
                 explicit_file_extension)

\* the record of one call in the call log
CallRecord(dfn, fm, file_title, is_folder, explicit_file_extension, r) ==
    [dfn |-> dfn, fm |-> fm, file_title |-> file_title,
     is_folder |-> is_folder,
     explicit_file_extension |-> explicit_file_extension,
     file_name |-> r.file_name, fresh |-> r.fresh]

\* ------------------------------------------------------------------ urls
\* the escape utils.encode_url writes for a character, or the character
Escape(c) ==
    CASE c = "/" -> "%2F"
      [] c = ":" -> "%3A"
      [] c = " " -> "%20"
      [] c = "+" -> "%2B"
      [] OTHER -> c

\* utils.encode_url: percent-encoding, character by character
encode_url(s) == [i \in 1..Len(s) |-> Escape(s[i])]

\* utils.decode_url: the escapes back to their characters
decode_url(s) ==
    [i \in 1..Len(s) |->
        CASE s[i] = "%2F" -> "/"
          [] s[i] = "%3A" -> ":"
          [] s[i] = "%20" -> " "
          [] s[i] = "%2B" -> "+"
          [] OTHER -> s[i]]

\* str.replace(a, b) for single characters
Replace(s, a, b) == [i \in 1..Len(s) |-> IF s[i] = a THEN b ELSE s[i]]

RECURSIVE Join(_, _)
\* sep.join(parts)
Join(parts, sep) ==
    IF parts = <<>> THEN <<>>
    ELSE IF Len(parts) = 1 THEN parts[1]
    ELSE parts[1] \o <<sep>> \o Join(Tail(parts), sep)

\* ------------------------------------------------------------------ link rewriter
(* A body is [kind, links, raw]: kind "empty" is the empty text, "malformed" *)
(* a text html.fromstring raises XMLSyntaxError on, "html" a parsed one.   *)
(* raw says the text is still the one the service sent.  A link is         *)
(* [href, class]; an href is the list href.split('/') of its segments.     *)
Display == <<"d", "i", "s", "p", "l", "a", "y">>
Pages == <<"p", "a", "g", "e", "s">>
\* the text 'viewpage.action?pageId=', one element of a segment
ViewPage == "viewpage.action?pageId="

\* line 83: contains(@href, "/display/")
IsDisplayLink(href) == \E i \in 2..(Len(href) - 1) : href[i] = Display

\* a segment that begins with 'viewpage.action?pageId=' and follows '/pages/'
IsViewPageAt(href, k) ==
    /\ href[k - 1] = Pages
    /\ href[k] # <<>>
    /\ href[k][1] = ViewPage

\* line 98: contains(@href, "/pages/viewpage.action?pageId=")
IsPageIdLink(href) == \E k \in 3..Len(href) : IsViewPageAt(href, k)

\* lines 86-92: the title a display link names
LinkTitle(href) ==
    LET page_title == IF Len(href) >= 5 THEN href[5] ELSE href[4]
    IN  decode_url(Replace(page_title, "+", " "))

\* line 101: href.split('/pages/viewpage.action?pageId=')[1], for an href that
\* holds the marker once
LinkPageId(href) ==
    LET i == CHOOSE k \in 3..Len(href) :
                /\ IsViewPageAt(href, k)
                /\ \A j \in 3..(k - 1) : ~IsViewPageAt(href, j)
    IN  Join(<<Tail(href[i])>> \o SubSeq(href, i + 1, Len(href)), "/")

RECURSIVE FixDisplayLinks(_, _, _, _)
\* lines 83-95: the display links, in document order; [links, dfn, fm, log]
FixDisplayLinks(links, duplicate_file_names, file_matching, log) ==
    IF links = <<>>
    THEN [links |-> <<>>, duplicate_file_names |-> duplicate_file_names,
          file_matching |-> file_matching, log |-> log]
    ELSE LET link == Head(links)
             hit == IsDisplayLink(link.href) /\ link.class = <<>>
             r == provide_unique_file_name(duplicate_file_names, file_matching,
                                           LinkTitle(link.href), FALSE, Html)
             fixed == IF hit THEN [link EXCEPT !.href = <<encode_url(r.file_name)>>]
                      ELSE link
             rest == IF hit
                     THEN FixDisplayLinks(Tail(links), r.duplicate_file_names,
                              r.file_matching,
                              Append(log, [file_title |-> LinkTitle(link.href),
                                           is_folder |-> FALSE,
                                           explicit_file_extension |-> Html,
                                           file_name |-> r.file_name,
                                           fresh |-> r.fresh]))
                     ELSE FixDisplayLinks(Tail(links), duplicate_file_names,
                              file_matching, log)
         IN  [rest EXCEPT !.links = <<fixed>> \o rest.links]

\* lines 98-103: one link of the second pass
FixPageIdLink(link) ==
    IF IsPageIdLink(link.href) /\ link.class = <<>>
    THEN [link EXCEPT !.href =
            <<encode_url(sanitize_for_filename(LinkPageId(link.href)) \o <<".">> \o Html)>>]
    ELSE link

RECURSIVE AllocPageIdLinks(_, _, _, _)
\* the second pass asking the allocator for the name of '<id>', extension 'html'
AllocPageIdLinks(links, duplicate_file_names, file_matching, log) ==
    IF links = <<>>
    THEN [links |-> <<>>, duplicate_file_names |-> duplicate_file_names,
          file_matching |-> file_matching, log |-> log]
    ELSE LET link == Head(links)
             hit == IsPageIdLink(link.href) /\ link.class = <<>>
             r == provide_unique_file_name(duplicate_file_names, file_matching,
                                           LinkPageId(link.href), FALSE, Html)
             fixed == IF hit THEN [link EXCEPT !.href = <<encode_url(r.file_name)>>]
                      ELSE link
             rest == IF hit
                     THEN AllocPageIdLinks(Tail(links), r.duplicate_file_names,
                              r.file_matching,
                              Append(log, [file_title |-> LinkPageId(link.href),
                                           is_folder |-> FALSE,
                                           explicit_file_extension |-> Html,
                                           file_name |-> r.file_name,
                                           fresh |-> r.fresh]))
                     ELSE AllocPageIdLinks(Tail(links), duplicate_file_names,
                              file_matching, log)
         IN  [rest EXCEPT !.links = <<fixed>> \o rest.links]

\* handle_html_references with the open-by-identifier links named by the allocator
handle_html_references_IdsViaAllocator(html_content, duplicate_file_names, file_matching) ==
    IF html_content.kind = "empty"
    THEN [content |-> html_content, duplicate_file_names |-> duplicate_file_names,
          file_matching |-> file_matching, log |-> <<>>, warned |-> FALSE]
    ELSE IF html_content.kind = "malformed"
    THEN [content |-> html_content, duplicate_file_names |-> duplicate_file_names,
          file_matching |-> file_matching, log |-> <<>>, warned |-> TRUE]
    ELSE LET d == FixDisplayLinks(html_content.links, duplicate_file_names,
                                  file_matching, <<>>)
             e == AllocPageIdLinks(d.links, d.duplicate_file_names,
                                   d.file_matching, d.log)
         IN  [content |-> [kind |-> "html", links |-> e.links, raw |-> FALSE],
              duplicate_file_names |-> e.duplicate_file_names,
              file_matching |-> e.file_matching, log |-> e.log, warned |-> FALSE]

\* handle_html_references returning an empty text for a body it cannot parse
handle_html_references_DropsBody(html_content, duplicate_file_names, file_matching) ==
    IF html_content.kind # "html"
    THEN [content |-> [kind |-> "empty", links |-> <<>>, raw |-> TRUE],
          duplicate_file_names |-> duplicate_file_names,
          file_matching |-> file_matching, log |-> <<>>,
          warned |-> html_content.kind = "malformed"]
    ELSE LET d == FixDisplayLinks(html_content.links, duplicate_file_names,
                                  file_matching, <<>>)
         IN  [content |-> [kind |-> "html",
                           links |-> [i \in 1..Len(d.links) |-> FixPageIdLink(d.links[i])],
                           raw |-> FALSE],
              duplicate_file_names |-> d.duplicate_file_names,
              file_matching |-> d.file_matching, log |-> d.log, warned |-> FALSE]

\* handle_html_references: [content, duplicate_file_names, file_matching,
\* log (the allocator calls made), warned]
handle_html_references(html_content, duplicate_file_names, file_matching) ==
    IF html_content.kind = "empty"
    THEN [content |-> html_content, duplicate_file_names |-> duplicate_file_names,
          file_matching |-> file_matching, log |-> <<>>, warned |-> FALSE]
    ELSE IF html_content.kind = "malformed"
    THEN [content |-> html_content, duplicate_file_names |-> duplicate_file_names,
          file_matching |-> file_matching, log |-> <<>>, warned |-> TRUE]
    ELSE LET d == FixDisplayLinks(html_content.links, duplicate_file_names,
                                  file_matching, <<>>)
         IN  [content |-> [kind |-> "html",
                           links |-> [i \in 1..Len(d.links) |-> FixPageIdLink(d.links[i])],
                           raw |-> FALSE],
              duplicate_file_names |-> d.duplicate_file_names,
              file_matching |-> d.file_matching, log |-> d.log, warned |-> FALSE]

\* ------------------------------------------------------------------ remote service
SpaceA == <<"A">>
SpaceB == <<"B">>

\* settings.SPACES_TO_EXPORT: two spaces, the first listed twice in a row
SPACES_TO_EXPORT == <<SpaceA, SpaceA, SpaceB>>

\* settings.EXPORT_FOLDER and settings.DOWNLOAD_SUB_FOLDER
EXPORT_FOLDER == <<"x">>
DOWNLOAD_SUB_FOLDER == <<"d">>

PageIds == {<<"1">>, <<"2">>, <<"3">>, <<"4">>, <<"5">>, <<"6">>}

\* GET /spaces/{id}?expand=homepage
SpaceResponse(space) ==
    IF space = SpaceA THEN [name |-> <<"a">>, homepageId |-> <<"1">>]
    ELSE [name |-> <<"b">>, homepageId |-> <<"6">>]

\* GET /content/{id}/child/page: the listing pages of a node, in cursor order
ChildListing(page_id) ==
    CASE page_id = <<"1">> -> << <<<<"2">>, <<"3">>>>, <<<<"4">>>> >>
      [] page_id = <<"2">> -> << <<<<"5">>>> >>
      [] OTHER -> << <<>> >>

\* the segment the service writes for a title in a display link
TitleSegment(t) ==
    [i \in 1..Len(t) |-> IF t[i] = " " THEN "+" ELSE Escape(t[i])]

\* the links the service writes; form and to say what the link is meant to open
\* '/display/A/<title>'
DisplayLink(t) ==
    [href |-> <<<<>>, Display, SpaceA, TitleSegment(t)>>, class |-> <<>>,
     form |-> "display", to |-> t]
\* '/w/display/A/<title>'
WikiDisplayLink(t) ==
    [href |-> <<<<>>, <<"w">>, Display, SpaceA, TitleSegment(t)>>, class |-> <<>>,
     form |-> "display", to |-> t]
\* '/pages/viewpage.action?pageId=<id>'
PageIdLink(id) ==
    [href |-> <<<<>>, Pages, <<ViewPage>> \o id>>, class |-> <<>>,
     form |-> "pageid", to |-> id]
Marked(link) == [link EXCEPT !.class = <<"c">>]
HtmlBody(links) == [kind |-> "html", links |-> links, raw |-> TRUE]
EmptyBody == [kind |-> "empty", links |-> <<>>, raw |-> TRUE]
MalformedBody(links) == [kind |-> "malformed", links |-> links, raw |-> TRUE]

\* the titles of the content nodes: node 3 and node 5 vary; node 3 may carry
\* the id of node 4 as its title, node 5 the title of node 2
TitlesOf(t3, t5) ==
    [id \in PageIds |->
        CASE id = <<"1">> -> <<"h">>
          [] id = <<"2">> -> <<"_">>
          [] id = <<"3">> -> t3
          [] id = <<"4">> -> <<"/">>
          [] id = <<"5">> -> t5
          [] OTHER -> <<"_">>]

\* the bodies: links to nodes visited later, earlier and never; node 2 varies
BodiesOf(title, kind2) ==
    [id \in PageIds |->
        CASE id = <<"1">> ->
                HtmlBody(<<DisplayLink(title[<<"4">>]), PageIdLink(<<"4">>),
                           Marked(DisplayLink(title[<<"3">>]))>>)
          [] id = <<"2">> ->
                IF kind2 = "malformed"
                THEN MalformedBody(<<WikiDisplayLink(title[<<"3">>])>>)
                ELSE HtmlBody(<<WikiDisplayLink(title[<<"3">>])>>)
          [] id = <<"3">> -> EmptyBody
          [] id = <<"4">> -> HtmlBody(<<PageIdLink(<<"2">>)>>)
          [] id = <<"5">> ->
                HtmlBody(<<PageIdLink(<<"1">>), DisplayLink(title[<<"1">>]),
                           PageIdLink(<<"9">>)>>)
          [] OTHER -> HtmlBody(<<DisplayLink(title[<<"4">>])>>)]

Services ==
    {[title |-> TitlesOf(t3, t5), body |-> BodiesOf(TitlesOf(t3, t5), k2)] :
        t3 \in {<<"a", " ", "b">>, <<"_", "_", "1">>, <<"4">>},
        t5 \in {<<"_">>, <<":">>},
        k2 \in {"html", "malformed"}}

\* ------------------------------------------------------------------ walker
Top == stack[Len(stack)]
NoEntry == [file_path |-> <<>>, page_title |-> <<>>, child_pages |-> <<>>]

\* lines 121-124: a dict argument that is None or empty is replaced by a new dict
OwnDict(h, ref) == IF ref = 0 \/ h[ref] = EmptyDict THEN Len(h) + 1 ELSE ref
HeapWith(h, ref) == IF ref = 0 \/ h[ref] = EmptyDict THEN Append(h, EmptyDict) ELSE h

\* lines 108-124: the activation a call creates, and the heap after it
NewFrame(h, page_id, folder_path, download_folder, depth, dfn, fm) ==
    LET h1 == HeapWith(h, dfn)
        h2 == HeapWith(h1, fm)
    IN  [heap |-> h2,
         frame |-> [page_id |-> page_id, folder_path |-> folder_path,
                    download_folder |-> download_folder, depth |-> depth,
                    dfn |-> OwnDict(h, dfn), fm |-> OwnDict(h1, fm),
                    pc |-> "FETCH", page_title |-> <<>>, page_content |-> EmptyBody,
                    file_name |-> <<>>, path_collection |-> NoEntry,
                    page_url |-> 0, results |-> <<>>, idx |-> 0, counter |-> 0]]

\* the call for a child made without the two dict arguments
ChildDicts_None(f) == <<0, 0>>

\* lines 171-172: the dicts a node passes to the call for a child
ChildDicts(f) == <<f.dfn, f.fm>>

Printed(stream, kind, depth, text) ==
    [stream |-> stream, kind |-> kind, depth |-> depth, text |-> text]

Requested(kind, id, page, ok) == [kind |-> kind, id |-> id, page |-> page, ok |-> ok]

\* utils.http_get returned
GetOk(kind, id, page) ==
    net' = [net EXCEPT !.log = Append(@, Requested(kind, id, page, TRUE))]

\* utils.http_get raised ConfluenceException
GetFailed(kind, id, page) ==
    /\ net.failures < MaxFailures
    /\ net' = [log |-> Append(net.log, Requested(kind, id, page, FALSE)),
               failures |-> net.failures + 1]

\* utils.write_html_2_file on folder/name
Written(folder, name, page_id, kind, title, content, headers) ==
    fs' = [fs EXCEPT
             !.files = Put(@, folder \o <<"/">> \o name,
                           [title |-> title, content |-> content, headers |-> headers]),
             !.log = Append(@, [folder |-> folder, name |-> name, page_id |-> page_id,
                                kind |-> kind, content |-> content])]

\* Returned without the test of line 173: the caller appends whatever came back
Returned_NoCheck(paths) ==
    /\ rets' = Append(rets, [page_id |-> Top.page_id, folder |-> Top.folder_path,
                             paths |-> paths])
    /\ IF Len(stack) = 1
       THEN /\ stack' = <<>>
            /\ main' = [main EXCEPT !.path_collection = paths, !.pc = "INDEX"]
       ELSE LET parent == stack[Len(stack) - 1]
                taken == [parent EXCEPT
                            !.path_collection.child_pages =
                                Append(@, IF paths # <<>> THEN paths[1] ELSE NoEntry),
                            !.idx = @ + 1]
            IN  /\ stack' = Append(SubSeq(stack, 1, Len(stack) - 2), taken)
                /\ UNCHANGED main

\* lines 173-174 and 291: the caller takes what the innermost activation returns
Returned(paths) ==
    /\ rets' = Append(rets, [page_id |-> Top.page_id, folder |-> Top.folder_path,
                             paths |-> paths])
    /\ IF Len(stack) = 1
       THEN /\ stack' = <<>>
            /\ main' = [main EXCEPT !.path_collection = paths, !.pc = "INDEX"]
       ELSE LET parent == stack[Len(stack) - 1]
                taken == [parent EXCEPT
                            !.path_collection.child_pages =
                                IF paths # <<>> THEN Append(@, paths[1]) ELSE @,
                            !.idx = @ + 1]
            IN  /\ stack' = Append(SubSeq(stack, 1, Len(stack) - 2), taken)
                /\ UNCHANGED main

\* the handler returning the entry built so far instead of None
Handled_Partial(depth) ==
    /\ out' = Append(out, Printed("err", "ERROR", depth + 1, <<>>))
    /\ Returned(<<Top.path_collection>>)

\* no handler in fetch_page_recursively: the error unwinds to the handler of main
Handled_Unwinds(depth) ==
    /\ out' = Append(out, Printed("err", "ERROR", 0, <<>>))
    /\ rets' = Append(rets, [page_id |-> Top.page_id, folder |-> Top.folder_path,
                             paths |-> <<>>])
    /\ stack' = <<>>
    /\ main' = [main EXCEPT !.i = @ + 1, !.pc = "LOOP"]

\* lines 183-185: the handler of ConfluenceException
Handled(depth) ==
    /\ out' = Append(out, Printed("err", "ERROR", depth + 1, <<>>))
    /\ Returned(<<>>)

\* lines 126-136: FETCH
FetchPage ==
    /\ stack # <<>> /\ Top.pc = "FETCH"
    /\ GetOk("content", Top.page_id, 0)
    /\ stack' = [stack EXCEPT ![Len(stack)] =
                    [@ EXCEPT !.page_content = svc.body[Top.page_id],
                              !.page_title = svc.title[Top.page_id],
                              !.pc = "NAME"]]
    /\ out' = Append(out, Printed("out", "PAGE", Top.depth + 1, Top.page_id))
    /\ UNCHANGED <<heap, calls, drv, svc, main, fs, rets>>

\* lines 128, 183-185: FETCH ends in a transport error
FetchPageFails ==
    /\ stack # <<>> /\ Top.pc = "FETCH"
    /\ GetFailed("content", Top.page_id, 0)
    /\ Handled(Top.depth)
    /\ UNCHANGED <<heap, calls, drv, svc, fs>>

\* lines 138-143: NAME
NamePage ==
    /\ stack # <<>> /\ Top.pc = "NAME"
    /\ LET r == provide_unique_file_name(heap[Top.dfn], heap[Top.fm],
                                         Top.page_title, FALSE, Html)
       IN  /\ heap' = [heap EXCEPT ![Top.dfn] = r.duplicate_file_names,
                                   ![Top.fm] = r.file_matching]
           /\ calls' = Append(calls, CallRecord(Top.dfn, Top.fm, Top.page_title,
                                                FALSE, Html, r))
           /\ stack' = [stack EXCEPT ![Len(stack)] =
                          [@ EXCEPT !.file_name = r.file_name,
                                    !.path_collection =
                                        [file_path |-> r.file_name,
                                         page_title |-> Top.page_title,
                                         child_pages |-> <<>>],
                                    !.pc = "REWRITE"]]
    /\ UNCHANGED <<drv, svc, main, fs, out, net, rets>>

\* lines 145-147: REWRITE
RewritePage ==
    /\ stack # <<>> /\ Top.pc = "REWRITE"
    /\ LET r == handle_html_references(Top.page_content, heap[Top.dfn], heap[Top.fm])
       IN  /\ heap' = [heap EXCEPT ![Top.dfn] = r.duplicate_file_names,
                                   ![Top.fm] = r.file_matching]
           /\ calls' = calls \o [i \in 1..Len(r.log) |->
                                    [dfn |-> Top.dfn, fm |-> Top.fm] @@ r.log[i]]
           /\ out' = IF r.warned
                     THEN Append(out, Printed("out", "WARNING", Top.depth + 2, <<>>))
                     ELSE out
           /\ stack' = [stack EXCEPT ![Len(stack)] =
                          [@ EXCEPT !.page_content = r.content,
                                    !.pc = "WRITE_PRIMARY"]]
    /\ UNCHANGED <<drv, svc, main, fs, net, rets>>

\* the primary file written and the listing started, the forward file left out
WritePrimary_ThenList ==
    /\ stack # <<>> /\ Top.pc = "WRITE_PRIMARY"
    /\ Written(Top.folder_path, Top.file_name, Top.page_id, "primary",
               Top.page_title, Top.page_content, <<>>)
    /\ stack' = [stack EXCEPT ![Len(stack)] =
                    [@ EXCEPT !.page_url = 1, !.counter = 0, !.pc = "LIST"]]
    /\ UNCHANGED <<heap, calls, drv, svc, main, out, net, rets>>

\* lines 148-149: WRITE_PRIMARY
WritePrimary ==
    /\ stack # <<>> /\ Top.pc = "WRITE_PRIMARY"
    /\ Written(Top.folder_path, Top.file_name, Top.page_id, "primary",
               Top.page_title, Top.page_content, <<>>)
    /\ stack' = [stack EXCEPT ![Len(stack)] = [@ EXCEPT !.pc = "WRITE_FORWARD"]]
    /\ UNCHANGED <<heap, calls, drv, svc, main, out, net, rets>>

\* lines 152-163: WRITE_FORWARD, and the first listing url
WriteForward ==
    /\ stack # <<>> /\ Top.pc = "WRITE_FORWARD"
    /\ LET original_file_link == encode_url(sanitize_for_filename(Top.file_name))
       IN  Written(Top.folder_path, Top.page_id \o <<".">> \o Html,
                   Top.page_id, "forward", Top.page_title,
                   [kind |-> "forward",
                    links |-> <<[href |-> <<original_file_link>>, class |-> <<>>,
                                 form |-> "local", to |-> Top.page_title]>>,
                    raw |-> FALSE],
                   <<original_file_link>>)
    /\ stack' = [stack EXCEPT ![Len(stack)] =
                    [@ EXCEPT !.page_url = 1, !.counter = 0, !.pc = "LIST"]]
    /\ UNCHANGED <<heap, calls, drv, svc, main, out, net, rets>>

\* lines 164-168: LIST_CHILDREN, one listing page
ListChildren ==
    /\ stack # <<>> /\ Top.pc = "LIST" /\ Top.page_url # 0
    /\ GetOk("children", Top.page_id, Top.page_url)
    /\ LET results == ChildListing(Top.page_id)[Top.page_url]
       IN  stack' = [stack EXCEPT ![Len(stack)] =
                        [@ EXCEPT !.results = results,
                                  !.counter = @ + Len(results),
                                  !.idx = 1, !.pc = "CHILD"]]
    /\ UNCHANGED <<heap, calls, drv, svc, main, fs, out, rets>>

\* lines 165, 183-185: a listing request ends in a transport error
ListChildrenFails ==
    /\ stack # <<>> /\ Top.pc = "LIST" /\ Top.page_url # 0
    /\ GetFailed("children", Top.page_id, Top.page_url)
    /\ Handled(Top.depth)
    /\ UNCHANGED <<heap, calls, drv, svc, fs>>

\* lines 169-172: the call for the next child of the listing page
VisitChild ==
    /\ stack # <<>> /\ Top.pc = "CHILD" /\ Top.idx <= Len(Top.results)
    /\ LET n == NewFrame(heap, Top.results[Top.idx], Top.folder_path,
                         Top.download_folder, Top.depth + 1,
                         ChildDicts(Top)[1], ChildDicts(Top)[2])
       IN  /\ heap' = n.heap
           /\ stack' = Append(stack, n.frame)
    /\ UNCHANGED <<calls, drv, svc, main, fs, out, net, rets>>

\* the listing ended after its first page, whatever cursor the response carries
NextListing_Stops ==
    /\ stack # <<>> /\ Top.pc = "CHILD" /\ Top.idx > Len(Top.results)
    /\ stack' = [stack EXCEPT ![Len(stack)] = [@ EXCEPT !.page_url = 0, !.pc = "LIST"]]
    /\ UNCHANGED <<heap, calls, drv, svc, main, fs, out, net, rets>>

\* lines 176-180: the listing page is done; the next cursor, or none
NextListing ==
    /\ stack # <<>> /\ Top.pc = "CHILD" /\ Top.idx > Len(Top.results)
    /\ stack' = [stack EXCEPT ![Len(stack)] =
                    [@ EXCEPT !.page_url =
                                 IF Top.page_url < Len(ChildListing(Top.page_id))
                                 THEN Top.page_url + 1 ELSE 0,
                              !.pc = "LIST"]]
    /\ UNCHANGED <<heap, calls, drv, svc, main, fs, out, net, rets>>

\* line 181: RETURN
ReturnEntry ==
    /\ stack # <<>> /\ Top.pc = "LIST" /\ Top.page_url = 0
    /\ Returned(<<Top.path_collection>>)
    /\ UNCHANGED <<heap, calls, drv, svc, fs, out, net>>

\* ------------------------------------------------------------------ index builder
Tag(tag, href, text) == [tag |-> tag, href |-> href, text |-> text]

RECURSIVE create_html_index(_)
RECURSIVE IndexItems(_)
RECURSIVE IndexItems_Reversed(_)
\* the list items of the children written last child first
IndexItems_Reversed(children) ==
    IF children = <<>> THEN <<>>
    ELSE IndexItems(Tail(children)) \o <<Tag("li", <<>>, <<>>)>>
         \o create_html_index(Head(children)) \o <<Tag("/li", <<>>, <<>>)>>

\* lines 202-203: the list items of the children, in child-list order
IndexItems(children) ==
    IF children = <<>> THEN <<>>
    ELSE <<Tag("li", <<>>, <<>>)>> \o create_html_index(Head(children))
         \o <<Tag("/li", <<>>, <<>>)>> \o IndexItems(Tail(children))

\* create_html_index: the markup as a sequence of tags
create_html_index(index_content) ==
    LET file_path == encode_url(index_content.file_path)
        anchor == Tag("a", sanitize_for_filename(file_path), index_content.page_title)
    IN  IF Len(index_content.child_pages) > 0
        THEN <<anchor, Tag("ul", <<>>, <<>>)>>
             \o IndexItems(index_content.child_pages)
             \o <<Tag("/ul", <<>>, <<>>)>>
        ELSE <<anchor>>

\* ------------------------------------------------------------------ main
CurrentSpace == SPACES_TO_EXPORT[main.i]

\* line 272: the folder name of the current space
SpaceFolderName ==
    provide_unique_file_name(heap[main.dsn], heap[main.sm], CurrentSpace, TRUE, <<>>)

\* lines 272-273, and the record of the call
FolderAllocated ==
    /\ heap' = [heap EXCEPT ![main.dsn] = SpaceFolderName.duplicate_file_names,
                            ![main.sm] = SpaceFolderName.file_matching]
    /\ calls' = Append(calls, CallRecord(main.dsn, main.sm, CurrentSpace, TRUE, <<>>,
                                         SpaceFolderName))

SpaceFolder == EXPORT_FOLDER \o <<"/">> \o SpaceFolderName.file_name

\* lines 268-277: the next space, its folders created
ExportSpace ==
    /\ main.pc = "LOOP" /\ main.i <= Len(SPACES_TO_EXPORT)
    /\ SpaceFolder \notin fs.dirs
    /\ FolderAllocated
    /\ fs' = [fs EXCEPT !.dirs = @ \cup {SpaceFolder,
                                   SpaceFolder \o <<"/">> \o DOWNLOAD_SUB_FOLDER}]
    /\ main' = [main EXCEPT !.space_counter = @ + 1,
                            !.space_folder = SpaceFolder,
                            !.download_folder =
                                SpaceFolder \o <<"/">> \o DOWNLOAD_SUB_FOLDER,
                            !.pc = "SPACE"]
    /\ UNCHANGED <<drv, svc, stack, out, net, rets>>

\* the OSError of os.makedirs not handled in the loop: the program ends
SkipSpace_Aborts ==
    /\ main.pc = "LOOP" /\ main.i <= Len(SPACES_TO_EXPORT)
    /\ SpaceFolder \in fs.dirs
    /\ FolderAllocated
    /\ out' = Append(out, Printed("err", "ERROR", 0, CurrentSpace))
    /\ main' = [main EXCEPT !.space_counter = @ + 1, !.pc = "DONE"]
    /\ UNCHANGED <<drv, svc, stack, fs, net, rets>>

\* lines 268-275, 301-303: os.makedirs raises OSError, the space is skipped
SkipSpace ==
    /\ main.pc = "LOOP" /\ main.i <= Len(SPACES_TO_EXPORT)
    /\ SpaceFolder \in fs.dirs
    /\ FolderAllocated
    /\ out' = Append(out, Printed("out", "WARNING", 0, CurrentSpace))
    /\ main' = [main EXCEPT !.space_counter = @ + 1,
                            !.space_folder = SpaceFolder,
                            !.i = @ + 1]
    /\ UNCHANGED <<drv, svc, stack, fs, net, rets>>

\* lines 279-291: the space is fetched and the walker called on its home node
GetSpace ==
    /\ main.pc = "SPACE"
    /\ GetOk("space", CurrentSpace, 0)
    /\ out' = out \o <<Printed("out", "EXPORTING", 0, CurrentSpace),
                       Printed("out", "SPACE", 0, CurrentSpace)>>
    /\ LET response == SpaceResponse(CurrentSpace)
           n == NewFrame(heap, response.homepageId, main.space_folder,
                         main.download_folder, 0, 0, 0)
       IN  /\ heap' = n.heap
           /\ stack' = <<n.frame>>
           /\ main' = [main EXCEPT !.space_name = response.name,
                                   !.space_page_id = response.homepageId,
                                   !.pc = "WALK"]
    /\ UNCHANGED <<calls, drv, svc, fs, rets>>

\* lines 281, 299-300: the space request ends in a transport error
GetSpaceFails ==
    /\ main.pc = "SPACE"
    /\ GetFailed("space", CurrentSpace, 0)
    /\ out' = out \o <<Printed("out", "EXPORTING", 0, CurrentSpace),
                       Printed("err", "ERROR", 0, <<>>)>>
    /\ main' = [main EXCEPT !.i = @ + 1, !.pc = "LOOP"]
    /\ UNCHANGED <<heap, calls, drv, svc, stack, fs, rets>>

\* the index written without the test of line 293, empty when nothing returned
WriteIndex_Always ==
    /\ main.pc = "INDEX"
    /\ Written(main.space_folder, <<"i", "n", "d", "e", "x", ".">> \o Html,
               <<>>, "index", main.space_name \o CurrentSpace,
               [kind |-> "index",
                links |-> IF main.path_collection # <<>>
                          THEN create_html_index(main.path_collection[1]) ELSE <<>>,
                raw |-> FALSE],
               <<>>)
    /\ main' = [main EXCEPT !.i = @ + 1, !.pc = "LOOP"]
    /\ UNCHANGED <<heap, calls, drv, svc, stack, out, net, rets>>

\* lines 293-298: the index of the space, when the walker returned an entry
WriteIndex ==
    /\ main.pc = "INDEX"
    /\ IF main.path_collection # <<>>
       THEN Written(main.space_folder, <<"i", "n", "d", "e", "x", ".">> \o Html,
                    <<>>, "index", main.space_name \o CurrentSpace,
                    [kind |-> "index",
                     links |-> create_html_index(main.path_collection[1]),
                     raw |-> FALSE],
                    <<>>)
       ELSE UNCHANGED fs
    /\ main' = [main EXCEPT !.i = @ + 1, !.pc = "LOOP"]
    /\ UNCHANGED <<heap, calls, drv, svc, stack, out, net, rets>>

\* lines 305-306: every space was handled
Finish ==
    /\ main.pc = "LOOP" /\ main.i > Len(SPACES_TO_EXPORT)
    /\ out' = Append(out, Printed("out", "FINISHED", 0, <<>>))
    /\ main' = [main EXCEPT !.pc = "DONE"]
    /\ UNCHANGED <<heap, calls, drv, svc, stack, fs, net, rets>>

vars == <<heap, calls, drv, svc, main, stack, fs, out, net, rets>>

\* lines 232-267: the export folder is new and empty, the space dicts are empty
Init ==
    /\ heap = <<EmptyDict, EmptyDict>>
    /\ calls = <<>>
    /\ drv = [dfn |-> 1, fm |-> 2]
    /\ svc \in Services
    /\ main = [pc |-> "LOOP", i |-> 1, space_counter |-> 0, dsn |-> 1, sm |-> 2,
               space_folder |-> <<>>, download_folder |-> <<>>,
               space_name |-> <<>>, space_page_id |-> <<>>,
               path_collection |-> <<>>]
    /\ stack = <<>>
    /\ fs = [dirs |-> {EXPORT_FOLDER}, files |-> EmptyDict, log |-> <<>>]
    /\ out = <<>>
    /\ net = [log |-> <<>>, failures |-> 0]
    /\ rets = <<>>

Next ==
    \/ ExportSpace \/ SkipSpace \/ GetSpace \/ GetSpaceFails \/ WriteIndex \/ Finish
    \/ FetchPage \/ FetchPageFails \/ NamePage \/ RewritePage \/ WritePrimary
    \/ WriteForward \/ ListChildren \/ ListChildrenFails \/ VisitChild
    \/ NextListing \/ ReturnEntry

Spec == Init /\ [][Next]_vars

\* ------------------------------------------------------------------ allocator driver
\* titles the driver allocates: three with one sanitized base, one that is
\* itself of the suffixed form, one with a dot, one plain
AllocTitles ==
    {<<"_">>, <<"/">>, <<":">>, <<"_", "_", "1">>, <<"a", ".", "b">>, <<"a">>}

AllocExtensions == {<<>>, Html}

\* a Naming Scope of its own: two empty dicts; the program does not run
InitAlloc ==
    /\ heap = <<EmptyDict, EmptyDict>>
    /\ calls = <<>>
    /\ drv = [dfn |-> 1, fm |-> 2]
    /\ svc = [title |-> EmptyDict, body |-> EmptyDict]
    /\ main = [pc |-> "DONE", i |-> 1, space_counter |-> 0, dsn |-> 0, sm |-> 0,
               space_folder |-> <<>>, download_folder |-> <<>>,
               space_name |-> <<>>, space_page_id |-> <<>>,
               path_collection |-> <<>>]
    /\ stack = <<>>
    /\ fs = [dirs |-> {}, files |-> EmptyDict, log |-> <<>>]
    /\ out = <<>>
    /\ net = [log |-> <<>>, failures |-> 0]
    /\ rets = <<>>

\* one provide_unique_file_name call on the driver's scope
Allocate(file_title, is_folder, explicit_file_extension) ==
    /\ Len(calls) < MaxCalls
    /\ LET r == provide_unique_file_name(heap[drv.dfn], heap[drv.fm], file_title,
                                         is_folder, explicit_file_extension)
       IN  /\ heap' = [heap EXCEPT ![drv.dfn] = r.duplicate_file_names,
                                   ![drv.fm] = r.file_matching]
           /\ calls' = Append(calls, CallRecord(drv.dfn, drv.fm, file_title,
                                     is_folder, explicit_file_extension, r))
    /\ UNCHANGED <<drv, svc, main, stack, fs, out, net, rets>>

NextAlloc ==
    \E t \in AllocTitles, f \in BOOLEAN, e \in AllocExtensions : Allocate(t, f, e)

SpecAlloc == InitAlloc /\ [][NextAlloc]_vars

\* ------------------------------------------------------------------ page_dumper
\* page_dumper.py lines 24-31: the activation of fetch_page_ids_recursively
IdsFrame(page_id, depth) ==
    [page_id |-> page_id, depth |-> depth, pc |-> "FETCH", page_ids |-> <<>>,
     page_url |-> 0, results |-> <<>>, idx |-> 0]

\* page_dumper.py lines 50-51, 104: the caller takes the list the innermost
\* activation returns and extends its own list with it
IdsReturned(ids) ==
    /\ rets' = Append(rets, [page_id |-> Top.page_id, folder |-> <<>>, paths |-> ids])
    /\ IF Len(stack) = 1
       THEN /\ stack' = <<>>
            /\ main' = [main EXCEPT !.path_collection = ids, !.pc = "DONE"]
       ELSE LET parent == stack[Len(stack) - 1]
                taken == [parent EXCEPT !.page_ids = @ \o ids, !.idx = @ + 1]
            IN  /\ stack' = Append(SubSeq(stack, 1, Len(stack) - 2), taken)
                /\ UNCHANGED main

\* the handler returning the ids collected so far
IdsHandled_KeepsIds(depth) ==
    /\ out' = Append(out, Printed("err", "ERROR", depth + 1, <<>>))
    /\ IdsReturned(Top.page_ids)

\* page_dumper.py lines 62-64: the handler of ConfluenceException
IdsHandled(depth) ==
    /\ out' = Append(out, Printed("err", "ERROR", depth + 1, <<>>))
    /\ IdsReturned(<<>>)

\* page_dumper.py lines 32-44: the detail request, the own id, the first listing url
IdsFetch ==
    /\ stack # <<>> /\ Top.pc = "FETCH"
    /\ GetOk("content", Top.page_id, 0)
    /\ out' = Append(out, Printed("out", "PAGE", Top.depth + 1, Top.page_id))
    /\ stack' = [stack EXCEPT ![Len(stack)] =
                    [@ EXCEPT !.page_ids = <<Top.page_id>>, !.page_url = 1,
                              !.pc = "LIST"]]
    /\ UNCHANGED <<heap, calls, drv, svc, main, fs, rets>>

\* page_dumper.py lines 33, 62-64: the detail request ends in a transport error
IdsFetchFails ==
    /\ stack # <<>> /\ Top.pc = "FETCH"
    /\ GetFailed("content", Top.page_id, 0)
    /\ IdsHandled(Top.depth)
    /\ UNCHANGED <<heap, calls, drv, svc, fs>>

\* page_dumper.py lines 45-48: one listing page
IdsList ==
    /\ stack # <<>> /\ Top.pc = "LIST" /\ Top.page_url # 0
    /\ GetOk("children", Top.page_id, Top.page_url)
    /\ stack' = [stack EXCEPT ![Len(stack)] =
                    [@ EXCEPT !.results = ChildListing(Top.page_id)[Top.page_url],
                              !.idx = 1, !.pc = "CHILD"]]
    /\ UNCHANGED <<heap, calls, drv, svc, main, fs, out, rets>>

\* page_dumper.py lines 46, 62-64: a listing request ends in a transport error
IdsListFails ==
    /\ stack # <<>> /\ Top.pc = "LIST" /\ Top.page_url # 0
    /\ GetFailed("children", Top.page_id, Top.page_url)
    /\ IdsHandled(Top.depth)
    /\ UNCHANGED <<heap, calls, drv, svc, fs>>

\* page_dumper.py lines 49-50: the call for the next child of the listing page
IdsVisitChild ==
    /\ stack # <<>> /\ Top.pc = "CHILD" /\ Top.idx <= Len(Top.results)
    /\ stack' = Append(stack, IdsFrame(Top.results[Top.idx], Top.depth + 1))
    /\ UNCHANGED <<heap, calls, drv, svc, main, fs, out, net, rets>>

\* page_dumper.py lines 54-58: the next cursor, or none
IdsNextListing ==
    /\ stack # <<>> /\ Top.pc = "CHILD" /\ Top.idx > Len(Top.results)
    /\ stack' = [stack EXCEPT ![Len(stack)] =
                    [@ EXCEPT !.page_url =
                                 IF Top.page_url < Len(ChildListing(Top.page_id))
                                 THEN Top.page_url + 1 ELSE 0,
                              !.pc = "LIST"]]
    /\ UNCHANGED <<heap, calls, drv, svc, main, fs, out, net, rets>>

\* page_dumper.py line 60: the list is returned
IdsReturn ==
    /\ stack # <<>> /\ Top.pc = "LIST" /\ Top.page_url = 0
    /\ IdsReturned(Top.page_ids)
    /\ UNCHANGED <<heap, calls, drv, svc, fs, out, net>>

\* fetch_page_ids_recursively called on one page of the service, as line 104
\* of page_dumper.py calls it on a home node
InitIds ==
    /\ heap = <<>>
    /\ calls = <<>>
    /\ drv = [dfn |-> 0, fm |-> 0]
    /\ svc = [title |-> TitlesOf(<<"4">>, <<"_">>), body |-> EmptyDict]
    /\ \E page_id \in PageIds :
          /\ main = [pc |-> "IDS", i |-> 1, space_counter |-> 0, dsn |-> 0, sm |-> 0,
                     space_folder |-> <<>>, download_folder |-> <<>>,
                     space_name |-> <<>>, space_page_id |-> page_id,
                     path_collection |-> <<>>]
          /\ stack = <<IdsFrame(page_id, 0)>>
    /\ fs = [dirs |-> {}, files |-> EmptyDict, log |-> <<>>]
    /\ out = <<>>
    /\ net = [log |-> <<>>, failures |-> 0]
    /\ rets = <<>>

NextIds ==
    \/ IdsFetch \/ IdsFetchFails \/ IdsList \/ IdsListFails
    \/ IdsVisitChild \/ IdsNextListing \/ IdsReturn

SpecIds == InitIds /\ [][NextIds]_vars

\* ------------------------------------------------------------------ claims on the allocator
Last(s) == s[Len(s)]

\* the calls of the log that allocated a new name, in order
FreshCalls == SelectSeq(calls, LAMBDA c : c.fresh)

BaseOf(c) == SplitName(c.file_title, c.is_folder, c.explicit_file_extension)[1]
ExtensionOf(c) == SplitName(c.file_title, c.is_folder, c.explicit_file_extension)[2]

\* how many of the first i new allocations have the base of the i-th
RankOf(i) ==
    Cardinality({j \in 1..i : BaseOf(FreshCalls[j]) = BaseOf(FreshCalls[i])})

\* C1: in one Naming Scope any two distinct titles of the title map have
\* different file names, whatever titles were allocated in whatever order.
C1_DistinctTitlesDistinctNames ==
    \A t1, t2 \in DOMAIN heap[drv.fm] :
        t1 # t2 => heap[drv.fm][t1] # heap[drv.fm][t2]

\* C2: a call with a title that already has a name returns that name, whatever
\* is_folder / explicit_file_extension it passes, and changes neither dict;
\* no call changes the name of a title that has one.
C2_IdempotentPerTitle ==
    [][\A t \in DOMAIN heap[drv.fm] :
          /\ t \in DOMAIN heap'[drv.fm] /\ heap'[drv.fm][t] = heap[drv.fm][t]
          /\ (Len(calls') = Len(calls) + 1 /\ Last(calls').file_title = t)
                => /\ Last(calls').file_name = heap[drv.fm][t]
                   /\ heap' = heap]_vars

\* a title is called again with other arguments after another title was allocated
C2_Witness ==
    /\ Len(calls) = 3
    /\ calls[1].file_title = calls[3].file_title
    /\ calls[2].file_title # calls[1].file_title
    /\ calls[2].fresh
    /\ calls[1].is_folder # calls[3].is_folder
    /\ calls[1].explicit_file_extension # calls[3].explicit_file_extension

\* C3: of the titles with one base the first allocated gets the base, the k-th
\* gets '<base>_<k-1>', each with '.<extension>' when there is an extension,
\* and the duplicate counter of a base is the number of its titles minus one.
C3_SuffixInFirstSeenOrder ==
    /\ \A i \in 1..Len(FreshCalls) :
          LET c == FreshCalls[i]
              k == RankOf(i)
              stem == IF k = 1 THEN BaseOf(c)
                      ELSE BaseOf(c) \o <<"_">> \o IntToStr(k - 1)
          IN  c.file_name = IF ExtensionOf(c) = <<>> THEN stem
                            ELSE stem \o <<".">> \o ExtensionOf(c)
    /\ DOMAIN heap[drv.dfn] = {BaseOf(FreshCalls[i]) : i \in 1..Len(FreshCalls)}
    /\ \A i \in 1..Len(FreshCalls) :
          heap[drv.dfn][BaseOf(FreshCalls[i])] =
              Cardinality({j \in 1..Len(FreshCalls) :
                              BaseOf(FreshCalls[j]) = BaseOf(FreshCalls[i])}) - 1

\* three distinct titles with one base were allocated, the third with an extension
C3_Witness ==
    /\ Len(FreshCalls) = 3
    /\ RankOf(3) = 3
    /\ FreshCalls[3].file_name = <<"_", "_", "2", ".">> \o Html

\* ------------------------------------------------------------------ claims on the walker
RECURSIVE Flatten(_)
\* the children of all listing pages, in cursor order
Flatten(pages) == IF pages = <<>> THEN <<>> ELSE Head(pages) \o Flatten(Tail(pages))

FetchFailed(id) ==
    \E i \in 1..Len(net.log) : net.log[i] = Requested("content", id, 0, FALSE)

ListingFailed(id) ==
    \E i \in 1..Len(net.log) :
        net.log[i].kind = "children" /\ net.log[i].id = id /\ ~net.log[i].ok

WritesOf(kind, id) ==
    {i \in 1..Len(fs.log) : fs.log[i].kind = kind /\ fs.log[i].page_id = id}

HasReturned(id) == \E i \in 1..Len(rets) : rets[i].page_id = id
RetOf(id) == rets[CHOOSE i \in 1..Len(rets) : rets[i].page_id = id]

RECURSIVE EntriesOf(_)
\* the Path Entries the children returned, in order, those that returned nothing left out
EntriesOf(kids) ==
    IF kids = <<>> THEN <<>>
    ELSE (IF RetOf(Head(kids)).paths # <<>> THEN <<RetOf(Head(kids)).paths[1]>>
          ELSE <<>>) \o EntriesOf(Tail(kids))

\* the step in which the detail request of the innermost call fails
FetchFailsStep ==
    stack # <<>> /\ Top.pc = "FETCH" /\ net'.failures = net.failures + 1

\* the step in which a listing request of the innermost call fails
ListFailsStep ==
    stack # <<>> /\ Top.pc = "LIST" /\ net'.failures = net.failures + 1

\* C4: a child whose detail FETCH fails writes no file, allocates no name,
\* returns nothing and is not asked for again; the parent goes on with the next
\* child with its child list as it was, and a parent with no failed request of
\* its own has visited every child of every listing page and returns its Path
\* Entry, whose child list holds the entries of the other children, in order.
C4_ChildFetchFailure ==
    /\ [][(FetchFailsStep /\ Len(stack) >= 2) =>
            /\ fs' = fs /\ heap' = heap /\ calls' = calls /\ main' = main
            /\ rets' = Append(rets, [page_id |-> Top.page_id,
                                     folder |-> Top.folder_path, paths |-> <<>>])
            /\ stack' = Append(SubSeq(stack, 1, Len(stack) - 2),
                               [stack[Len(stack) - 1] EXCEPT !.idx = @ + 1])]_vars
    /\ [](\A id \in PageIds :
             FetchFailed(id) =>
                /\ WritesOf("primary", id) = {} /\ WritesOf("forward", id) = {}
                /\ Cardinality({i \in 1..Len(net.log) : net.log[i].id = id}) = 1)
    /\ [](\A i \in 1..Len(rets) :
             LET id == rets[i].page_id
                 kids == Flatten(ChildListing(id))
             IN  (~FetchFailed(id) /\ ~ListingFailed(id)) =>
                    /\ rets[i].paths # <<>>
                    /\ \A k \in 1..Len(kids) : HasReturned(kids[k])
                    /\ rets[i].paths[1].child_pages = EntriesOf(kids))

\* the home node of space A returned its entry with three children listed, the
\* detail request of one child having failed: the entry holds the other two
C4_Witness ==
    /\ HasReturned(<<"1">>)
    /\ RetOf(<<"1">>).paths # <<>>
    /\ FetchFailed(<<"2">>)
    /\ Len(RetOf(<<"1">>).paths[1].child_pages) = 2
    /\ WritesOf("primary", <<"4">>) # {}

\* C5: a finished call returned a Path Entry exactly when the primary and the
\* forward file of its node were written, and the node has neither files nor
\* entry exactly when its detail FETCH failed - also when a listing failed.
C5_EntryIffFiles ==
    \A i \in 1..Len(rets) :
        LET id == rets[i].page_id
            files == WritesOf("primary", id) # {} /\ WritesOf("forward", id) # {}
            none == WritesOf("primary", id) = {} /\ WritesOf("forward", id) = {}
        IN  /\ (rets[i].paths # <<>>) <=> files
            /\ (rets[i].paths = <<>> /\ none) <=> FetchFailed(id)

\* C5 as amended: a finished call returned a Path Entry exactly when both files
\* of its node were written and no listing request of that node failed; the node
\* has no file exactly when its detail FETCH failed, and then it has no entry;
\* each of the two files is written at most once.
C5_EntryIffFilesAndListed ==
    \A i \in 1..Len(rets) :
        LET id == rets[i].page_id
            files == WritesOf("primary", id) # {} /\ WritesOf("forward", id) # {}
            none == WritesOf("primary", id) = {} /\ WritesOf("forward", id) = {}
        IN  /\ (rets[i].paths # <<>>) <=> (files /\ ~ListingFailed(id))
            /\ none <=> FetchFailed(id)
            /\ files \/ none
            /\ FetchFailed(id) => rets[i].paths = <<>>
            /\ Cardinality(WritesOf("primary", id)) <= 1
            /\ Cardinality(WritesOf("forward", id)) <= 1

\* a node whose files were written returned nothing, a listing request having failed
C5_Witness ==
    \E i \in 1..Len(rets) :
        /\ rets[i].paths = <<>>
        /\ WritesOf("primary", rets[i].page_id) # {}
        /\ WritesOf("forward", rets[i].page_id) # {}
        /\ ListingFailed(rets[i].page_id)

\* C6: a failed listing request of node N ends the call for N alone: N returns
\* nothing, no file and no name is touched, the parent goes on with the next
\* child (main goes on to the index step for a home node); no request is made
\* twice, and a call returns nothing only when a request of its own node failed.
C6_ListingFailureIsLocal ==
    /\ [][ListFailsStep =>
            /\ fs' = fs /\ heap' = heap /\ calls' = calls
            /\ rets' = Append(rets, [page_id |-> Top.page_id,
                                     folder |-> Top.folder_path, paths |-> <<>>])
            /\ Len(stack) >= 2 =>
                  /\ main' = main
                  /\ stack' = Append(SubSeq(stack, 1, Len(stack) - 2),
                                     [stack[Len(stack) - 1] EXCEPT !.idx = @ + 1])
            /\ Len(stack) = 1 =>
                  /\ stack' = <<>>
                  /\ main' = [main EXCEPT !.path_collection = <<>>,
                                          !.pc = "INDEX"]]_vars
    /\ [](\A i, j \in 1..Len(net.log) :
             (i # j) => [net.log[i] EXCEPT !.ok = TRUE] # [net.log[j] EXCEPT !.ok = TRUE])
    /\ [](\A i \in 1..Len(rets) :
             rets[i].paths = <<>> =>
                FetchFailed(rets[i].page_id) \/ ListingFailed(rets[i].page_id))

\* the listing of node 2 failed and its parent returned an entry that holds
\* the sibling visited after it, but not node 2
C6_Witness ==
    /\ ListingFailed(<<"2">>)
    /\ HasReturned(<<"1">>)
    /\ RetOf(<<"1">>).paths # <<>>
    /\ Len(RetOf(<<"1">>).paths[1].child_pages) = 2
    /\ RetOf(<<"1">>).paths[1].child_pages[1].page_title = svc.title[<<"3">>]

Primaries == {i \in 1..Len(fs.log) : fs.log[i].kind = "primary"}
Forwards == {i \in 1..Len(fs.log) : fs.log[i].kind = "forward"}

\* the positions of the links of the given form that carry no class, in the
\* body the service sent for a node, when that body is parsed
LinksOf(id, form) ==
    IF svc.body[id].kind # "html" THEN {}
    ELSE {k \in 1..Len(svc.body[id].links) :
             svc.body[id].links[k].form = form /\ svc.body[id].links[k].class = <<>>}

\* what a browser opens for a rewritten link: the one segment, percent-decoded
Target(link) == decode_url(link.href[1])

\* C7: a display link to title T in a page written before the node titled T is
\* written opens the name the allocator gave T with extension 'html', and that
\* is the name of the primary file of the node titled T in the same space.
C7_ForwardLinkMeetsPrimary ==
    \A i, j \in Primaries :
        LET w == fs.log[i]
            v == fs.log[j]
        IN  (i < j /\ w.folder = v.folder) =>
               \A k \in LinksOf(w.page_id, "display") :
                  svc.body[w.page_id].links[k].to = svc.title[v.page_id] =>
                     /\ Len(w.content.links[k].href) = 1
                     /\ Target(w.content.links[k]) = v.name
                     /\ \E c \in 1..Len(calls) :
                           /\ calls[c].fresh
                           /\ calls[c].file_title = svc.title[v.page_id]
                           /\ calls[c].explicit_file_extension = Html
                           /\ calls[c].file_name = v.name

\* the home node links to the title '/' of node 4; before node 4 is visited
\* node 2, titled '_', takes the suffixed name of the same base
C7_Witness ==
    \E i, j, n \in Primaries :
        /\ i < n /\ n < j
        /\ fs.log[i].page_id = <<"1">> /\ fs.log[j].page_id = <<"4">>
        /\ fs.log[n].name = <<"_", "_", "1", ".">> \o Html
        /\ fs.log[j].name = <<"_", ".">> \o Html
        /\ Target(fs.log[i].content.links[1]) = fs.log[j].name

\* the step that rewrites the body of the innermost call
RewriteStep == stack # <<>> /\ Top.pc = "REWRITE"

\* the titles the unmarked display links of the body being rewritten name
DisplayTitles ==
    {svc.body[Top.page_id].links[k].to : k \in LinksOf(Top.page_id, "display")}

\* C8: an open-by-identifier link to <id> is rewritten to '<id>.html', the name
\* of the forward file a visited node with that id gets, whether or not it is
\* visited; rewriting a body asks the allocator for the titles of its display
\* links only, and a body without display links leaves every dict as it was.
C8_IdLinksBypassAllocator ==
    /\ [](\A i \in Primaries :
             \A k \in LinksOf(fs.log[i].page_id, "pageid") :
                LET link == fs.log[i].content.links[k]
                    id == svc.body[fs.log[i].page_id].links[k].to
                IN  /\ Len(link.href) = 1
                    /\ Target(link) = id \o <<".">> \o Html
                    /\ \A j \in Forwards :
                          (fs.log[j].page_id = id /\ fs.log[j].folder = fs.log[i].folder)
                             => fs.log[j].name = Target(link))
    /\ [][RewriteStep =>
            /\ \A ref \in 1..Len(heap) :
                  ref \notin {Top.dfn, Top.fm} => heap'[ref] = heap[ref]
            /\ Len(heap') = Len(heap)
            /\ DOMAIN heap'[Top.fm] = (DOMAIN heap[Top.fm]) \cup DisplayTitles
            /\ Len(calls') = Len(calls) + Cardinality(LinksOf(Top.page_id, "display"))
            /\ \A c \in (Len(calls) + 1)..Len(calls') :
                  calls'[c].file_title \in DisplayTitles
            /\ DisplayTitles = {} => (heap' = heap /\ calls' = calls)]_vars

\* node 4, whose body holds one open-by-identifier link and no display link, is
\* written with the link to '2.html', the forward file of node 2; the home
\* node was written with a link to '4.html' before node 4 was visited
C8_Witness ==
    \E i, j \in Primaries :
        /\ i < j
        /\ fs.log[i].page_id = <<"1">> /\ fs.log[j].page_id = <<"4">>
        /\ Target(fs.log[i].content.links[2]) = <<"4", ".">> \o Html
        /\ Target(fs.log[j].content.links[1]) = <<"2", ".">> \o Html
        /\ \E f \in Forwards : fs.log[f].name = <<"2", ".">> \o Html
        /\ \E f \in Forwards : fs.log[f].name = <<"4", ".">> \o Html

\* the nodes with a body that cannot be parsed whose body went through the rewriter
MalformedRewritten ==
    {id \in PageIds :
        /\ svc.body[id].kind = "malformed"
        /\ \/ WritesOf("primary", id) # {}
           \/ \E d \in 1..Len(stack) :
                 stack[d].page_id = id /\ stack[d].pc = "WRITE_PRIMARY"}

PageWarnings == {i \in 1..Len(out) : out[i].kind = "WARNING" /\ out[i].depth > 0}

SpacesWalked ==
    Cardinality({i \in 1..Len(net.log) : net.log[i].kind = "space" /\ net.log[i].ok})

\* C10: every activation of the walker holds the same two dicts, at every
\* depth; they are the two dicts made for the space being walked, one new pair
\* per space, empty when the home node is entered, and never the two dicts
\* that name the space folders; every page name comes from such a pair.
C10_OneScopePerSpace ==
    /\ Len(heap) = 2 + 2 * SpacesWalked
    /\ main.dsn = 1 /\ main.sm = 2
    /\ \A d \in 1..Len(stack) :
          stack[d].dfn = Len(heap) - 1 /\ stack[d].fm = Len(heap)
    /\ (Len(stack) = 1 /\ Top.pc \in {"FETCH", "NAME"}) =>
          heap[Top.dfn] = EmptyDict /\ heap[Top.fm] = EmptyDict
    /\ \A c \in 1..Len(calls) :
          IF calls[c].is_folder THEN calls[c].dfn = 1 /\ calls[c].fm = 2
          ELSE calls[c].dfn > 2 /\ calls[c].fm = calls[c].dfn + 1
    /\ \A c, e \in 1..Len(calls) :
          (calls[c].fm = calls[e].fm /\ calls[c].file_title = calls[e].file_title)
             => calls[c].file_name = calls[e].file_name

\* three nested activations share the dicts of space A and the innermost one
\* met a title again that the home node had named; later space B names its
\* home node '_' as if no '_' had ever been named
C10_Witness ==
    /\ Len(heap) = 6
    /\ \E c \in 1..Len(calls) :
          /\ ~calls[c].fresh /\ calls[c].file_title = <<"h">> /\ calls[c].fm = 4
    /\ \E c \in 1..Len(calls) :
          /\ calls[c].file_title = <<"_">> /\ calls[c].fm = 4
          /\ calls[c].file_name = <<"_", "_", "1", ".">> \o Html
    /\ \E c \in 1..Len(calls) :
          /\ calls[c].file_title = <<"_">> /\ calls[c].fm = 6
          /\ calls[c].file_name = <<"_", ".">> \o Html

\* ------------------------------------------------------------------ claims on the index
RECURSIVE PreOrder(_, _)
RECURSIVE PreOrderOf(_, _)
\* the entries of a Path Entry tree in depth-first pre-order, each with its depth
PreOrder(entry, d) ==
    <<[entry |-> entry, depth |-> d]>> \o PreOrderOf(entry.child_pages, d + 1)
PreOrderOf(children, d) ==
    IF children = <<>> THEN <<>>
    ELSE PreOrder(Head(children), d) \o PreOrderOf(Tail(children), d)

\* the positions of the tags of one kind, in order
TagsAt(tags, tag) ==
    SelectSeq([k \in 1..Len(tags) |-> k], LAMBDA k : tags[k].tag = tag)

\* the number of lists open at position k
OpenLists(tags, k) ==
    Cardinality({j \in 1..(k - 1) : tags[j].tag = "ul"})
        - Cardinality({j \in 1..(k - 1) : tags[j].tag = "/ul"})

IndexWrites == {i \in 1..Len(fs.log) : fs.log[i].kind = "index"}

\* what the call on the home node of a space folder returned: the last return there
HomeRet(folder) ==
    rets[CHOOSE i \in 1..Len(rets) :
            /\ rets[i].folder = folder
            /\ \A j \in 1..Len(rets) : rets[j].folder = folder => j <= i]

\* C11: the child list of a returned Path Entry holds the entries of the
\* children of all listing pages of the node, in cursor order, those that
\* returned nothing left out; the index of a space has one anchor per Path Entry
\* in depth-first pre-order, each with the title of its entry, opening the file
\* name of its entry, at the nesting depth of its entry, every entry but the
\* root in a list item of its own, and a list follows an anchor exactly when
\* its entry has children.
C11_ChildOrderKeptInIndex ==
    /\ \A i \in 1..Len(rets) :
          LET kids == Flatten(ChildListing(rets[i].page_id))
          IN  rets[i].paths # <<>> =>
                 /\ \A k \in 1..Len(kids) : HasReturned(kids[k])
                 /\ rets[i].paths[1].child_pages = EntriesOf(kids)
    /\ \A w \in IndexWrites :
          LET tags == fs.log[w].content.links
              pre == PreOrder(HomeRet(fs.log[w].folder).paths[1], 0)
              pos == TagsAt(tags, "a")
              parents == {n \in 1..Len(pre) : pre[n].entry.child_pages # <<>>}
          IN  /\ HomeRet(fs.log[w].folder).paths # <<>>
              /\ Len(pos) = Len(pre)
              /\ pos[1] = 1
              /\ \A n \in 1..Len(pre) :
                    /\ tags[pos[n]].text = pre[n].entry.page_title
                    /\ Target([href |-> <<tags[pos[n]].href>>]) = pre[n].entry.file_path
                    /\ OpenLists(tags, pos[n]) = pre[n].depth
                    /\ n > 1 => tags[pos[n] - 1].tag = "li"
                    /\ (pos[n] < Len(tags) /\ tags[pos[n] + 1].tag = "ul")
                          <=> n \in parents
              /\ \A k \in 1..Len(tags) :
                    /\ tags[k].tag = "li" => tags[k + 1].tag = "a"
                    /\ tags[k].tag = "ul" => tags[k - 1].tag = "a"
              /\ Len(TagsAt(tags, "li")) = Len(pre) - 1
              /\ Len(TagsAt(tags, "/li")) = Len(pre) - 1
              /\ Len(TagsAt(tags, "ul")) = Cardinality(parents)
              /\ Len(TagsAt(tags, "/ul")) = Cardinality(parents)

\* the index of space A for the whole tree: five anchors, the home node with
\* three children from two listing pages, the first child with a child of its own
C11_Witness ==
    \E w \in IndexWrites :
        LET e == HomeRet(fs.log[w].folder).paths[1]
        IN  /\ Len(e.child_pages) = 3
            /\ Len(e.child_pages[1].child_pages) = 1
            /\ e.child_pages[3].page_title = svc.title[<<"4">>]
            /\ Len(TagsAt(fs.log[w].content.links, "a")) = 5

\* ------------------------------------------------------------------ claims on the space loop
\* the positions of SPACES_TO_EXPORT the loop has skipped or asked the service for
SpacesDone == 1..(IF main.pc \in {"WALK", "INDEX"} THEN main.i ELSE main.i - 1)

\* position k repeats a space id listed before it
ListedBefore(k) == \E j \in 1..(k - 1) : SPACES_TO_EXPORT[j] = SPACES_TO_EXPORT[k]

SpaceRequests(space) ==
    {i \in 1..Len(net.log) : net.log[i].kind = "space" /\ net.log[i].id = space}

SpaceWarnings(space) ==
    {i \in 1..Len(out) : out[i] = Printed("out", "WARNING", 0, space)}

\* the step of the loop that goes on to the next space without exporting
SkipStep == main.pc = "LOOP" /\ main'.pc = "LOOP" /\ main'.i = main.i + 1

\* C12: a space id listed again is skipped: the allocator returns the folder
\* name it gave the id before, one warning is printed, no request is made and
\* no file or folder changes; every first occurrence the loop has come to was
\* asked for exactly once, also after a skipped space and after a space whose
\* export ended in a transport error, and its home node was walked when the
\* request succeeded; the loop ends only when it has come to every space.
C12_RepeatedSpaceSkipped ==
    /\ [][SkipStep =>
            /\ ListedBefore(main.i)
            /\ fs' = fs /\ net' = net /\ stack' = stack /\ rets' = rets
            /\ out' = Append(out, Printed("out", "WARNING", 0, CurrentSpace))
            /\ Len(calls') = Len(calls) + 1
            /\ ~Last(calls').fresh
            /\ \E c \in 1..Len(calls) :
                  /\ calls[c].fresh /\ calls[c].is_folder
                  /\ calls[c].file_title = CurrentSpace
                  /\ calls[c].file_name = Last(calls').file_name]_vars
    /\ [](\A k \in SpacesDone :
             LET space == SPACES_TO_EXPORT[k]
                 home == SpaceResponse(space).homepageId
             IN  /\ Cardinality(SpaceRequests(space)) = 1
                 /\ (k < main.i /\ net.log[CHOOSE i \in SpaceRequests(space) : TRUE].ok)
                       => HasReturned(home)
                 /\ Cardinality(SpaceWarnings(space)) =
                       Cardinality({j \in SpacesDone :
                                       SPACES_TO_EXPORT[j] = space /\ ListedBefore(j)}))
    /\ [](main.pc = "DONE" =>
             /\ main.i = Len(SPACES_TO_EXPORT) + 1
             /\ main.space_counter = Len(SPACES_TO_EXPORT))

\* the request for space A failed, its second listing was skipped with a
\* warning, and space B, listed after both, has its index
C12_Witness ==
    /\ main.pc = "DONE"
    /\ \E i \in SpaceRequests(SpaceA) : ~net.log[i].ok
    /\ Cardinality(SpaceWarnings(SpaceA)) = 1
    /\ \E w \in IndexWrites :
          fs.log[w].folder = EXPORT_FOLDER \o <<"/">> \o SpaceB

\* ------------------------------------------------------------------ claims on the files of a space
\* C13: two distinct nodes visited in one space are written to distinct
\* primary file paths, whatever their titles: no primary file replaces the
\* primary file of another node.
C13_DistinctPrimaryPaths ==
    \A i, j \in Primaries :
        (fs.log[i].folder = fs.log[j].folder /\ fs.log[i].page_id # fs.log[j].page_id)
            => fs.log[i].name # fs.log[j].name

\* ------------------------------------------------------------------ claims on the order of the steps
\* the steps of one activation that follow one another
StepOrder ==
    {<<"FETCH", "NAME">>, <<"NAME", "REWRITE">>, <<"REWRITE", "WRITE_PRIMARY">>,
     <<"WRITE_PRIMARY", "WRITE_FORWARD">>, <<"WRITE_FORWARD", "LIST">>,
     <<"LIST", "CHILD">>, <<"CHILD", "LIST">>}

\* the node whose listing holds the given node, if any
ParentsOf(id) ==
    {p \in PageIds :
        \E k \in 1..Len(Flatten(ChildListing(p))) : Flatten(ChildListing(p))[k] = id}

HasFiles(id) == WritesOf("primary", id) # {} /\ WritesOf("forward", id) # {}

\* C14: an activation goes through FETCH, NAME, REWRITE, WRITE_PRIMARY,
\* WRITE_FORWARD, LIST_CHILDREN and returns an entry from there only: the
\* detail request is made in FETCH, the own title is the one name allocated in
\* NAME, linked titles are allocated in REWRITE when the own name is set, the
\* primary file is written in WRITE_PRIMARY and the forward file in
\* WRITE_FORWARD after it, listing requests are made in LIST_CHILDREN when both
\* files are written, and a child is called only from there.
C14_StepsInOrder ==
    /\ [][stack # <<>> =>
            /\ Len(stack') = Len(stack) =>
                  /\ Top'.page_id = Top.page_id
                  /\ Top'.pc # Top.pc => <<Top.pc, Top'.pc>> \in StepOrder
                  /\ Top'.pc = Top.pc => (Top.pc = "CHILD" /\ Top'.idx = Top.idx + 1)
            /\ Len(stack') = Len(stack) + 1 => (Top.pc = "CHILD" /\ Top'.pc = "FETCH")
            /\ Len(stack') = Len(stack) - 1 =>
                  /\ Top.pc \in {"FETCH", "LIST"}
                  /\ Last(rets').paths # <<>> => (Top.pc = "LIST" /\ Top.page_url = 0)
            /\ calls' # calls =>
                  \/ /\ Top.pc = "NAME"
                     /\ Len(calls') = Len(calls) + 1
                     /\ Last(calls').file_title = Top.page_title
                     /\ Top'.file_name = Last(calls').file_name
                  \/ /\ Top.pc = "REWRITE"
                     /\ Top.file_name # <<>>
                     /\ Has(heap[Top.fm], Top.page_title)
            /\ fs' # fs =>
                  /\ Len(fs'.log) = Len(fs.log) + 1
                  /\ Last(fs'.log).page_id = Top.page_id
                  /\ \/ /\ Top.pc = "WRITE_PRIMARY" /\ Last(fs'.log).kind = "primary"
                        /\ ~HasFiles(Top.page_id)
                     \/ /\ Top.pc = "WRITE_FORWARD" /\ Last(fs'.log).kind = "forward"
                        /\ WritesOf("primary", Top.page_id) # {}
            /\ net' # net =>
                  /\ Len(net'.log) = Len(net.log) + 1
                  /\ Last(net'.log).id = Top.page_id
                  /\ \/ /\ Top.pc = "FETCH" /\ Last(net'.log).kind = "content"
                        /\ WritesOf("primary", Top.page_id) = {}
                     \/ /\ Top.pc = "LIST" /\ Last(net'.log).kind = "children"
                        /\ HasFiles(Top.page_id)]_vars
    /\ [](\A i \in 1..Len(net.log) :
             /\ net.log[i].kind = "children" => HasFiles(net.log[i].id)
             /\ net.log[i].kind = "content" =>
                   \A p \in ParentsOf(net.log[i].id) : HasFiles(p))
    /\ [](\A d \in 1..Len(stack) : \A a \in 1..(d - 1) :
             HasFiles(stack[a].page_id) /\ stack[a].pc = "CHILD")
    /\ [](\A j \in Forwards : \E i \in Primaries :
             i < j /\ fs.log[i].page_id = fs.log[j].page_id)
    /\ [](\A i \in Primaries : \E c \in 1..Len(calls) :
             /\ calls[c].file_title = svc.title[fs.log[i].page_id]
             /\ calls[c].file_name = fs.log[i].name)

\* node 2 allocated its own name, then a name for the title its body links
\* to, wrote both files, listed its child, and the child was fetched
C14_Witness ==
    /\ \E c, e \in 1..Len(calls) :
          /\ c < e
          /\ calls[c].fresh /\ calls[c].file_title = svc.title[<<"2">>]
          /\ calls[e].fresh /\ calls[e].file_title = svc.title[<<"3">>]
    /\ HasFiles(<<"2">>)
    /\ \E i \in 1..Len(net.log) : net.log[i] = Requested("children", <<"2">>, 1, TRUE)
    /\ \E i \in 1..Len(net.log) : net.log[i] = Requested("content", <<"5">>, 0, TRUE)
    /\ HasReturned(<<"2">>) /\ RetOf(<<"2">>).paths # <<>>

\* ------------------------------------------------------------------ claims on the listing loop
\* the listing requests made for a node, in order
ListingRequests(id) ==
    SelectSeq(net.log, LAMBDA r : r.kind = "children" /\ r.id = id)

FetchesOf(id) ==
    {i \in 1..Len(net.log) : net.log[i].kind = "content" /\ net.log[i].id = id}

\* the step that ends a listing page
PageDoneStep == stack # <<>> /\ Top.pc = "CHILD" /\ Top.idx > Len(Top.results)

\* more than the children one listing page can hold
MaxRank == Cardinality(PageIds) + 2

\* how far an activation has come: its steps in order, then the listing pages
\* in cursor order, within a page the children in order
RankOfFrame(f) ==
    CASE f.pc = "FETCH" -> 0
      [] f.pc = "NAME" -> 1
      [] f.pc = "REWRITE" -> 2
      [] f.pc = "WRITE_PRIMARY" -> 3
      [] f.pc = "WRITE_FORWARD" -> 4
      [] f.pc = "LIST" ->
            5 + MaxRank * (IF f.page_url = 0 THEN Len(ChildListing(f.page_id))
                           ELSE f.page_url - 1)
      [] OTHER -> 5 + MaxRank * (f.page_url - 1) + f.idx

RECURSIVE RankOfStack(_)
RankOfStack(st) == IF st = <<>> THEN 0 ELSE 1 + RankOfFrame(Head(st)) + RankOfStack(Tail(st))

\* a number that every step of the export makes larger
Progress ==
    RankOfStack(stack) + MaxRank * MaxRank * Len(rets)
        + Len(net.log) + Len(out) + main.i + main.space_counter

\* the walker is in REWRITE, a step that is always possible
AtRewrite == stack # <<>> /\ Top.pc = "REWRITE"

\* C15 as stated: the export ends, and when it has ended every child on every
\* listing page of every node whose files were written was fetched exactly once.
C15_EveryChildOfWrittenNode ==
    main.pc = "DONE" =>
        \A id \in PageIds :
            HasFiles(id) =>
                \A k \in 1..Len(Flatten(ChildListing(id))) :
                    Cardinality(FetchesOf(Flatten(ChildListing(id))[k])) = 1

\* C15 as amended: the export ends (every step makes Progress larger, and
\* there is a next step until main is done); after a listing page the next page
\* is asked for exactly when the response carried a next cursor, so the listing
\* requests of a node are the pages 1, 2, ... in order, each once, all of them
\* when the node returned an entry and up to the failed one otherwise; the
\* walker is called exactly once for every child of every page the service
\* returned and for no child of a page it did not return; no node is fetched
\* twice.
C15_ListingTerminatesExactlyOnce ==
    /\ [][Progress' > Progress]_vars
    /\ [](main.pc = "DONE" \/ AtRewrite \/ ENABLED Next)
    /\ [][PageDoneStep =>
            /\ Top'.pc = "LIST"
            /\ Top'.page_url = IF Top.page_url < Len(ChildListing(Top.page_id))
                               THEN Top.page_url + 1 ELSE 0
            /\ net' = net]_vars
    /\ [](\A id \in PageIds :
             LET reqs == ListingRequests(id)
                 pages == ChildListing(id)
             IN  /\ Cardinality(FetchesOf(id)) <= 1
                 /\ Len(reqs) <= Len(pages)
                 /\ \A n \in 1..Len(reqs) :
                       /\ reqs[n].page = n
                       /\ n < Len(reqs) => reqs[n].ok
                 /\ HasReturned(id) =>
                       /\ RetOf(id).paths # <<>> =>
                             (Len(reqs) = Len(pages) /\ \A n \in 1..Len(reqs) : reqs[n].ok)
                       /\ \A n \in 1..Len(pages) : \A k \in 1..Len(pages[n]) :
                             Cardinality(FetchesOf(pages[n][k])) =
                                IF n <= Len(reqs) /\ reqs[n].ok THEN 1 ELSE 0)

\* the home node of space A got both listing pages and returned its entry,
\* every one of its three children fetched once; the listing of node 2 failed,
\* so that its child, node 5, was never fetched although node 2 has its files
C15_Witness ==
    /\ main.pc = "DONE"
    /\ Len(ListingRequests(<<"1">>)) = 2
    /\ RetOf(<<"1">>).paths # <<>>
    /\ \A c \in {<<"2">>, <<"3">>, <<"4">>} : Cardinality(FetchesOf(c)) = 1
    /\ HasFiles(<<"2">>) /\ ListingFailed(<<"2">>)
    /\ FetchesOf(<<"5">>) = {}

\* C16: in one space folder no forward file '<id>.html' has the path of a
\* primary file, and no display link of a written page opens the name of a
\* forward file: a forward file never replaces a primary file.
C16_ForwardApartFromPrimary ==
    /\ \A i \in Forwards : \A j \in Primaries :
          fs.log[i].folder = fs.log[j].folder => fs.log[i].name # fs.log[j].name
    /\ \A i \in Forwards : \A j \in Primaries :
          fs.log[i].folder = fs.log[j].folder =>
             \A k \in LinksOf(fs.log[j].page_id, "display") :
                Target(fs.log[j].content.links[k]) # fs.log[i].name

\* ------------------------------------------------------------------ claims on the index of a space
\* the allocator calls that named the folder of a space listed for the first time
FolderCalls == {c \in 1..Len(calls) : calls[c].is_folder /\ calls[c].fresh}

FolderOf(c) == EXPORT_FOLDER \o <<"/">> \o calls[c].file_name
HomeOf(c) == SpaceResponse(calls[c].file_title).homepageId

IndexesIn(folder) == {w \in IndexWrites : fs.log[w].folder = folder}
NodeWritesIn(folder) ==
    {j \in 1..Len(fs.log) : fs.log[j].folder = folder /\ fs.log[j].kind # "index"}

\* the loop is done with the space of the folder
ExportEnded(folder) == main.pc \in {"LOOP", "DONE"} \/ main.space_folder # folder

HomeEntry(c) == HasReturned(HomeOf(c)) /\ RetOf(HomeOf(c)).paths # <<>>

\* C17, its last part as stated: when the export has ended, every space folder
\* that holds a node file holds an index.html.
C17_IndexWheneverFiles ==
    main.pc = "DONE" =>
        \A c \in FolderCalls :
            NodeWritesIn(FolderOf(c)) # {} => IndexesIn(FolderOf(c)) # {}

\* C17 as amended: index.html is written in a step of main with no activation
\* of the walker left; a space folder holds at most one, written after every
\* node file of the folder and after the call on the home node returned an
\* entry; once the loop is done with the space the folder holds index.html
\* exactly when the call on the home node returned an entry, and a folder with
\* node files and no index.html is one whose home node had a listing failure.
C17_IndexAfterTraversal ==
    /\ [][(Len(fs'.log) > Len(fs.log) /\ Last(fs'.log).kind = "index") =>
            /\ main.pc = "INDEX" /\ stack = <<>> /\ stack' = <<>>
            /\ main.path_collection # <<>>
            /\ Last(fs'.log).folder = main.space_folder
            /\ Last(fs'.log).content.links = create_html_index(Last(rets).paths[1])]_vars
    /\ [](\A c \in FolderCalls :
             LET folder == FolderOf(c)
             IN  /\ Cardinality(IndexesIn(folder)) <= 1
                 /\ \A w \in IndexesIn(folder) :
                       /\ HomeEntry(c)
                       /\ \A j \in NodeWritesIn(folder) : j < w
                       /\ ExportEnded(folder)
                 /\ ExportEnded(folder) =>
                       /\ IndexesIn(folder) # {} <=> HomeEntry(c)
                       /\ (NodeWritesIn(folder) # {} /\ IndexesIn(folder) = {})
                             => ListingFailed(HomeOf(c)))

\* space A has its index after all its node files; the listing of the home
\* node of space B failed, and space B holds the two files of its home node
\* and no index
C17_Witness ==
    /\ main.pc = "DONE"
    /\ \E c, e \in FolderCalls :
          /\ calls[c].file_title = SpaceA /\ calls[e].file_title = SpaceB
          /\ Cardinality(IndexesIn(FolderOf(c))) = 1
          /\ Cardinality(NodeWritesIn(FolderOf(c))) = 10
          /\ Cardinality(NodeWritesIn(FolderOf(e))) = 2
          /\ IndexesIn(FolderOf(e)) = {}

\* ------------------------------------------------------------------ claims on page_dumper
FetchedOk(id) ==
    \E i \in 1..Len(net.log) : net.log[i] = Requested("content", id, 0, TRUE)

RECURSIVE PreOrderIds(_)
RECURSIVE PreOrderIdsOf(_)
\* a node and its descendants in depth-first pre-order, children in service order
PreOrderIds(id) == <<id>> \o PreOrderIdsOf(Flatten(ChildListing(id)))
PreOrderIdsOf(kids) ==
    IF kids = <<>> THEN <<>> ELSE PreOrderIds(Head(kids)) \o PreOrderIdsOf(Tail(kids))

RECURSIVE IdsOf(_)
\* the lists the children returned, one after the other
IdsOf(kids) ==
    IF kids = <<>> THEN <<>> ELSE RetOf(Head(kids)).paths \o IdsOf(Tail(kids))

RECURSIVE Intact(_, _)
\* no request of a node on the way from the given node down to n failed
Intact(id, n) ==
    /\ FetchedOk(id) /\ ~ListingFailed(id)
    /\ id # n =>
          \E k \in 1..Len(Flatten(ChildListing(id))) :
             /\ \E m \in 1..Len(PreOrderIds(Flatten(ChildListing(id))[k])) :
                   PreOrderIds(Flatten(ChildListing(id))[k])[m] = n
             /\ Intact(Flatten(ChildListing(id))[k], n)

\* C18 as stated: a call returns the ids of its page and of all descendants
\* whose detail request succeeded, in depth-first pre-order.
C18_IdsOfFetchedNodes ==
    \A i \in 1..Len(rets) :
        rets[i].paths = SelectSeq(PreOrderIds(rets[i].page_id), FetchedOk)

\* C18 as amended: a call returns the empty list when the detail request or a
\* listing request of its own node failed, and otherwise the own id followed
\* by the lists of the children of all listing pages in service order; so it
\* returns, in depth-first pre-order and each once, the ids of the nodes that
\* are reached from its page through nodes without a failed request.
C18_IdsOfIntactNodes ==
    \A i \in 1..Len(rets) :
        LET id == rets[i].page_id
            kids == Flatten(ChildListing(id))
        IN  /\ (FetchFailed(id) \/ ListingFailed(id)) => rets[i].paths = <<>>
            /\ ~(FetchFailed(id) \/ ListingFailed(id)) =>
                  /\ \A k \in 1..Len(kids) : HasReturned(kids[k])
                  /\ rets[i].paths = <<id>> \o IdsOf(kids)
            /\ rets[i].paths = SelectSeq(PreOrderIds(id), LAMBDA n : Intact(id, n))
            /\ \A a, b \in 1..Len(rets[i].paths) :
                  a # b => rets[i].paths[a] # rets[i].paths[b]

\* the detail request of node 3 and the listing request of node 2 failed:
\* the call on node 1 returns node 1 and node 4, not node 2 although its detail
\* request succeeded
C18_Witness ==
    /\ main.pc = "DONE"
    /\ FetchFailed(<<"3">>) /\ ListingFailed(<<"2">>) /\ FetchedOk(<<"2">>)
    /\ main.path_collection = <<<<"1">>, <<"4">>>>
    /\ RetOf(<<"1">>).paths = main.path_collection

====
